---- MODULE Spec2Model ----
(***************************************************************************)
(* A model of spdlog's logger (include/spdlog/logger.h) and of the hourly  *)
(* rotating file sink (hourly_file_sink.hpp).                              *)
(*                                                                         *)
(* Time is counted in whole seconds since the epoch, as time(nullptr) and  *)
(* to_time_t() return it.  Local time is taken to be UTC.                  *)
(***************************************************************************)
EXTENDS Integers, Sequences, FiniteSets, TLC

VARIABLES
    \* ---- logger (logger.h:388-395)
    _name,            \* const std::string _name
    _sinks,           \* std::vector<sink_ptr>: the level threshold of each sink
    _level,           \* spdlog::level_t _level
    _flush_level,     \* spdlog::level_t _flush_level
    _last_err_time,   \* std::atomic<time_t> _last_err_time
    _msg_counter,     \* std::atomic<size_t> _msg_counter
    SPDLOG_ENABLE_MESSAGE_COUNTER,  \* whether the build defines the macro
    \* ---- the environment
    now,              \* the wall clock, in seconds
    stderr_lines,     \* the clock value at which each line was written to
                      \* stderr_sink_mt
    \* ---- what the last call of logger::log did
    call,             \* its inputs: severity and the fault the collaborators raise
    events,           \* the calls it made, in order: <<what, sink index>>
    err_msgs,         \* the strings it handed to _err_handler, in order
    outcome,          \* "none", "gated", "returned" or "rethrown"
    first_err_call,   \* the clock value read by the first invocation of
                      \* _default_err_handler, -1 before it
    last_err_call,    \* the clock value read by the last invocation
    \* ---- threads inside _default_err_handler (logger.h:360-374)
    h_pc,             \* per thread: "idle", "caught", "check", "emit" or "store"
    h_now,            \* per thread: the local variable `now`
    \* ---- message ids (logger.h:332-334, 382-385)
    n_sunk,           \* records handed to _sink_it so far
    n_ok,             \* calls so far that passed the gate and met no fault
    m_pc,             \* per thread inside log: "idle", "incr" or "format"
    m_rec,            \* per thread: its record's msg_id and how often it was set
    given,            \* <<thread, id>> of every id assigned by a thread, in order
    \* ---- hourly_file_sink (hourly_file_sink.hpp:91-96)
    _rotation_tp,     \* std::chrono::system_clock::time_point _rotation_tp
    _force_flush,     \* bool _force_flush
    cur_file,         \* _file_helper's file name: the file it last opened
    handles,          \* the file handles the sink holds open
    _mutex,           \* base_sink's _mutex: the thread holding it, 0 when free
    \* ---- threads inside the sink's log
    s_pc,             \* per thread: "idle", "wait", "check", "open", "deadline",
                      \* "write", "force", "flushing" or "unlock"
    s_log,            \* what the threads have done to the sink so far
    \* ---- what the sink has done
    ctor_time,        \* the clock value when the constructor ran
    sink_op,          \* the last _sink_it: its time, file, opens and flushes
    rotations,        \* file reopens performed by _sink_it so far
    retired,          \* the names of the files rotated away from
    tp_read,          \* the clock value _rotation_tp was last computed from
    ff_asked,         \* the last argument of set_force_flush; FALSE before any
    torn              \* an operation's clock reads straddled an hour boundary

logger_vars == <<_name, _sinks, _level, _flush_level, _last_err_time>>
call_vars   == <<call, events, err_msgs, outcome>>
err_vars    == <<stderr_lines, first_err_call, last_err_call>>
thread_vars == <<h_pc, h_now>>
seq_vars    == <<_msg_counter, SPDLOG_ENABLE_MESSAGE_COUNTER, n_sunk, n_ok>>
seq_threads == <<m_pc, m_rec, given>>
sink_threads == <<_mutex, s_pc, s_log>>
sink_vars   == <<_rotation_tp, _force_flush, cur_file, handles>>
sink_hist   == <<ctor_time, sink_op, rotations, retired, tp_read, ff_asked, torn>>

vars == <<_name, _sinks, _level, _flush_level, _last_err_time, now, stderr_lines,
          call, events, err_msgs, outcome, first_err_call, last_err_call,
          h_pc, h_now, _msg_counter, SPDLOG_ENABLE_MESSAGE_COUNTER, n_sunk, n_ok,
          m_pc, m_rec, given, _mutex, s_pc, s_log, _rotation_tp, _force_flush, cur_file, handles,
          ctor_time, sink_op, rotations, retired, tp_read, ff_asked, torn>>

(***************************************************************************)
(* Bounds of the model.                                                    *)
(***************************************************************************)
NumSinks == 2          \* sinks attached to the logger
MaxLines == 3          \* lines on stderr before a thread stops faulting
NumThreads == 2        \* threads logging through one logger
MaxHours == 3          \* hours of wall-clock time the sink is followed for
MaxWindows == 2        \* minutes of wall-clock time the error handler is followed for
StartHour == 22        \* the hour of day 0 at which the clock starts
MaxMsgs == 3           \* message ids handed out by one logger

(***************************************************************************)
(* Severities (common.h, level::level_enum), in their order.               *)
(***************************************************************************)
level_enum == <<"trace", "debug", "info", "warn", "err", "critical", "off">>

Levels == 0 .. (Len(level_enum) - 1)

LevelOf(name) == (CHOOSE i \in 1 .. Len(level_enum) : level_enum[i] = name) - 1

Min(a, b) == IF a < b THEN a ELSE b

(***************************************************************************)
(* Faults.  A recognized fault is a std::exception and carries what(); an  *)
(* unrecognized one is anything else that is thrown.                       *)
(***************************************************************************)
NoFault == [kind |-> "none", what |-> ""]

Faults == {[kind |-> "std", what |-> "bad format"],
           [kind |-> "std", what |-> "write failed"],
           [kind |-> "unknown", what |-> ""]}

NoStage == <<"none", 0>>

\* The places of one log call where a collaborator can throw: rendering the
\* payload (logger.h:77-82), _formatter->format (335), sink->log (340).
Stages == {<<"render", 0>>, <<"format", 0>>} \cup {<<"log", i>> : i \in 1 .. NumSinks}

\* A call's input: its severity and the first fault raised during it.  What
\* the collaborators would have done after the first fault is never run.
Calls == {[lvl |-> l, stage |-> NoStage, fault |-> NoFault] : l \in Levels}
         \cup {[lvl |-> l, stage |-> s, fault |-> f] : l \in Levels, s \in Stages, f \in Faults}

NoCall == [lvl |-> 0, stage |-> NoStage, fault |-> NoFault]

FaultAt(c, stage) == IF c.stage = stage THEN c.fault ELSE NoFault

(***************************************************************************)
(* logger                                                                  *)
(***************************************************************************)

\* A plausible slip: the comparison of the gate turned round.
should_log_reversed(msg_level) == msg_level <= _level

\* logger::should_log (logger.h:317-320)
should_log(msg_level) == msg_level >= _level

\* sink::should_log of sink i: the sink's own threshold (sinks/sink.h).
sink_should_log(i, msg_level) == msg_level >= _sinks[i]

\* A plausible slip: the test for level::off left out.
should_flush_on_any(msg_level) == msg_level >= _flush_level

\* logger::_should_flush_on (logger.h:376-380)
_should_flush_on(msg_level) ==
    (msg_level >= _flush_level) /\ (msg_level # LevelOf("off"))

\* A plausible slip: the loop over the sinks stopped one short.
flush_all_but_last == [i \in 1 .. (Len(_sinks) - 1) |-> <<"flush", i>>]

\* logger::flush (logger.h:299-305): every sink, in the vector's order.
flush == [i \in 1 .. Len(_sinks) |-> <<"flush", i>>]

\* The loop of logger::_sink_it (logger.h:336-342) from sink i on: ev is the
\* calls made so far.  A sink's log that throws ends the loop.
RECURSIVE offer_sinks(_, _, _)
offer_sinks(i, c, ev) ==
    IF i > Len(_sinks) THEN [ev |-> ev, fault |-> NoFault]
    ELSE LET asked == Append(ev, <<"should_log", i>>)
         IN  IF ~sink_should_log(i, c.lvl) THEN offer_sinks(i + 1, c, asked)
             ELSE LET logged == Append(asked, <<"log", i>>)
                      f == FaultAt(c, <<"log", i>>)
                  IN  IF f.kind # "none" THEN [ev |-> logged, fault |-> f]
                      ELSE offer_sinks(i + 1, c, logged)

\* A plausible slip: the record formatted after the sinks were offered it.
logger_sink_it_format_late(c, ev) ==
    LET r == offer_sinks(1, c, ev)
    IN  IF r.fault.kind # "none" THEN r
        ELSE [ev |-> Append(r.ev, <<"format", 0>>), fault |-> FaultAt(c, <<"format", 0>>)]

\* logger::_incr_msg_counter (logger.h:382-385) as one thread runs it: msg_id
\* takes the counter's value and the counter is advanced by one.  The step is
\* compiled in only under SPDLOG_ENABLE_MESSAGE_COUNTER (logger.h:332-334).
_incr_msg_counter(ev) ==
    IF SPDLOG_ENABLE_MESSAGE_COUNTER THEN Append(ev, <<"msg_id", _msg_counter>>) ELSE ev

\* A plausible slip: the counter advanced once the record has been dispatched.
logger_sink_it_count_last(c, ev) ==
    LET formatted == Append(ev, <<"format", 0>>)
        f == FaultAt(c, <<"format", 0>>)
    IN  IF f.kind # "none" THEN [ev |-> formatted, fault |-> f]
        ELSE LET r == offer_sinks(1, c, formatted)
             IN  IF r.fault.kind # "none" THEN r
                 ELSE IF _should_flush_on(c.lvl)
                      THEN [ev |-> _incr_msg_counter(r.ev \o flush), fault |-> NoFault]
                      ELSE [ev |-> _incr_msg_counter(r.ev), fault |-> NoFault]

\* logger::_sink_it (logger.h:330-348)
logger_sink_it(c, ev) ==
    LET formatted == Append(_incr_msg_counter(ev), <<"format", 0>>)
        f == FaultAt(c, <<"format", 0>>)
    IN  IF f.kind # "none" THEN [ev |-> formatted, fault |-> f]
        ELSE LET r == offer_sinks(1, c, formatted)
             IN  IF r.fault.kind # "none" THEN r
                 ELSE IF _should_flush_on(c.lvl)
                      THEN [ev |-> r.ev \o flush, fault |-> NoFault]
                      ELSE r

\* The try block of logger::log (logger.h:75-85): the record is built, the
\* payload rendered into it, and the record handed to _sink_it.
try_block(c) ==
    LET built == <<<<"record", 0>>>>
        f == FaultAt(c, <<"render", 0>>)
    IN  IF f.kind # "none" THEN [ev |-> built, fault |-> f]
        ELSE logger_sink_it(c, built)

\* The places in ev at which a message id was taken from the counter.
IdsTaken(ev) == {k \in 1 .. Len(ev) : ev[k][1] = "msg_id"}

\* A plausible slip: every fault rethrown after the handler ran.
catch_rethrow_all(f) ==
    IF f.kind = "none" THEN [msgs |-> <<>>, outcome |-> "returned"]
    ELSE [msgs |-> <<<<f.what>>>>, outcome |-> "rethrown"]

\* A plausible slip: the unknown fault swallowed like a recognized one.
catch_swallow_all(f) ==
    CASE f.kind = "none" -> [msgs |-> <<>>, outcome |-> "returned"]
      [] f.kind = "std" -> [msgs |-> <<<<f.what>>>>, outcome |-> "returned"]
      [] OTHER -> [msgs |-> <<<<"Unknown exception in logger ", _name>>>>,
                   outcome |-> "returned"]

\* The catch clauses of logger::log (logger.h:86-94): the strings handed to
\* _err_handler and how the call ends.
catch(f) ==
    CASE f.kind = "none" -> [msgs |-> <<>>, outcome |-> "returned"]
      [] f.kind = "std" -> [msgs |-> <<<<f.what>>>>, outcome |-> "returned"]
      [] OTHER -> [msgs |-> <<<<"Unknown exception in logger ", _name>>>>,
                   outcome |-> "rethrown"]

\* The test of logger::_default_err_handler (logger.h:363).
throttled(t, last) == t - last < 60

\* logger::_default_err_handler (logger.h:360-374), run n times (n is 0 or 1)
\* by one thread.  The clock reads `now` at line 362; it has moved on to
\* t_write when the line reaches stderr (line 372); line 373 stores the value
\* read at line 362.
_default_err_handler(n, t_write) ==
    /\ first_err_call' = IF n > 0 /\ first_err_call < 0 THEN now ELSE first_err_call
    /\ last_err_call' = IF n > 0 THEN now ELSE last_err_call
    /\ IF n > 0 /\ ~throttled(now, _last_err_time)
       THEN /\ t_write >= now
            /\ stderr_lines' = Append(stderr_lines, t_write)
            /\ _last_err_time' = now
            /\ now' = t_write
       ELSE /\ t_write = now
            /\ UNCHANGED <<stderr_lines, _last_err_time, now>>

\* logger::log (logger.h:67-95); t_write is the clock value when a line of
\* the error handler, if the call writes one, reaches stderr.
log(c, t_write) ==
    /\ Len(stderr_lines) < MaxLines
    /\ _msg_counter <= MaxMsgs
    /\ call' = c
    /\ IF ~should_log(c.lvl)
       THEN /\ events' = <<>>
            /\ err_msgs' = <<>>
            /\ outcome' = "gated"
            /\ t_write = now
            /\ UNCHANGED <<_last_err_time, stderr_lines, first_err_call, last_err_call, now>>
            /\ UNCHANGED <<_msg_counter, n_sunk, n_ok>>
       ELSE LET r == try_block(c)
                h == catch(r.fault)
            IN  /\ events' = r.ev
                /\ err_msgs' = h.msgs
                /\ outcome' = h.outcome
                /\ _default_err_handler(Len(h.msgs), t_write)
                /\ _msg_counter' = _msg_counter + Cardinality(IdsTaken(r.ev))
                /\ n_sunk' = IF SPDLOG_ENABLE_MESSAGE_COUNTER /\ c.stage # <<"render", 0>>
                             THEN n_sunk + 1 ELSE n_sunk
                /\ n_ok' = IF SPDLOG_ENABLE_MESSAGE_COUNTER /\ r.fault.kind = "none"
                           THEN n_ok + 1 ELSE n_ok
    /\ UNCHANGED <<SPDLOG_ENABLE_MESSAGE_COUNTER, seq_threads, sink_threads>>
    /\ UNCHANGED <<_name, _sinks, _level, _flush_level>>
    /\ UNCHANGED <<thread_vars, sink_vars, sink_hist>>

\* A call during which the clock stands still.
Log == \E c \in Calls : log(c, now)

\* What the last call did is forgotten when the logger is reconfigured.
forget_call ==
    /\ call' = NoCall
    /\ events' = <<>>
    /\ err_msgs' = <<>>
    /\ outcome' = "none"

\* logger::set_level (logger.h:284-287)
set_level(log_level) ==
    /\ _level' = log_level
    /\ forget_call
    /\ UNCHANGED <<_name, _sinks, _flush_level, _last_err_time, now>>
    /\ UNCHANGED <<err_vars, thread_vars, sink_vars, sink_hist>>
    /\ UNCHANGED <<seq_vars, seq_threads, sink_threads>>

SetLevel == \E l \in Levels : set_level(l)

\* logger::flush_on (logger.h:307-310)
flush_on(log_level) ==
    /\ _flush_level' = log_level
    /\ forget_call
    /\ UNCHANGED <<_name, _sinks, _level, _last_err_time, now>>
    /\ UNCHANGED <<err_vars, thread_vars, sink_vars, sink_hist>>
    /\ UNCHANGED <<seq_vars, seq_threads, sink_threads>>

\* The flush thresholds tried.
FlushLevels == {LevelOf("trace"), LevelOf("warn"), LevelOf("critical"), LevelOf("off")}

FlushOn == \E l \in FlushLevels : flush_on(l)

(***************************************************************************)
(* Threads inside logger::_default_err_handler (logger.h:360-374).  Each   *)
(* thread's log call has faulted and invoked the handler; the handler's    *)
(* statements of several threads interleave.                               *)
(***************************************************************************)
Threads == 1 .. NumThreads

\* logger.h:362: auto now = time(nullptr)
h_enter(t) ==
    /\ h_pc[t] = "idle"
    /\ Len(stderr_lines) < MaxLines
    /\ h_now' = [h_now EXCEPT ![t] = now]
    /\ h_pc' = [h_pc EXCEPT ![t] = "check"]
    /\ UNCHANGED <<logger_vars, now, call_vars, err_vars, sink_vars, sink_hist>>
    /\ UNCHANGED <<seq_vars, seq_threads, sink_threads>>

\* logger.h:363-366: the atomic load of _last_err_time and the early return
h_check(t) ==
    /\ h_pc[t] = "check"
    /\ h_pc' = [h_pc EXCEPT ![t] =
                   IF throttled(h_now[t], _last_err_time) THEN "idle" ELSE "emit"]
    /\ UNCHANGED <<logger_vars, now, call_vars, err_vars, h_now, sink_vars, sink_hist>>
    /\ UNCHANGED <<seq_vars, seq_threads, sink_threads>>

\* logger.h:367-372: the line is written to stderr
h_emit(t) ==
    /\ h_pc[t] = "emit"
    /\ stderr_lines' = Append(stderr_lines, now)
    /\ h_pc' = [h_pc EXCEPT ![t] = "store"]
    /\ UNCHANGED <<logger_vars, now, call_vars, first_err_call, last_err_call, h_now,
                   sink_vars, sink_hist>>
    /\ UNCHANGED <<seq_vars, seq_threads, sink_threads>>

\* logger.h:373: _last_err_time = now
h_store(t) ==
    /\ h_pc[t] = "store"
    /\ _last_err_time' = h_now[t]
    /\ h_pc' = [h_pc EXCEPT ![t] = "idle"]
    /\ UNCHANGED <<_name, _sinks, _level, _flush_level, now, call_vars, err_vars,
                   h_now, sink_vars, sink_hist>>
    /\ UNCHANGED <<seq_vars, seq_threads, sink_threads>>

HEnter == \E t \in Threads : h_enter(t)
HCheck == \E t \in Threads : h_check(t)
HEmit  == \E t \in Threads : h_emit(t)
HStore == \E t \in Threads : h_store(t)

(***************************************************************************)
(* Threads inside logger::log, followed as far as the message id goes: the *)
(* record is built and rendered (logger.h:75-82), _sink_it takes the id    *)
(* (332-334) and then formats and dispatches the record (335-347).         *)
(***************************************************************************)
NoRec == [passed |-> FALSE, rendered |-> FALSE, n |-> 0, msg_id |-> 0,
          formatted |-> FALSE, n_at_format |-> 0]

\* logger.h:70-83: the gate, the record and its payload; a rendering that
\* throws takes the thread to the catch clauses (86-94).
m_log(t, lvl, renders) ==
    /\ m_pc[t] = "idle"
    /\ h_pc[t] = "idle"
    /\ Len(given) < MaxMsgs
    /\ should_log(lvl)
    /\ m_rec' = [m_rec EXCEPT ![t] = [NoRec EXCEPT !.passed = TRUE, !.rendered = renders]]
    /\ m_pc' = [m_pc EXCEPT ![t] =
                   IF ~renders THEN "idle"
                   ELSE IF SPDLOG_ENABLE_MESSAGE_COUNTER THEN "incr" ELSE "format"]
    /\ h_pc' = [h_pc EXCEPT ![t] = IF renders THEN @ ELSE "caught"]
    /\ UNCHANGED <<logger_vars, now, call_vars, err_vars, h_now, seq_vars, given,
                   sink_vars, sink_hist, sink_threads>>

\* logger.h:86-94 and 362: the catch clause calls _err_handler, whose first
\* statement reads the clock; h_check, h_emit and h_store run the rest.
m_catch(t) ==
    /\ h_pc[t] = "caught"
    /\ h_now' = [h_now EXCEPT ![t] = now]
    /\ h_pc' = [h_pc EXCEPT ![t] = "check"]
    /\ UNCHANGED <<logger_vars, now, call_vars, err_vars, seq_vars, seq_threads,
                   sink_vars, sink_hist, sink_threads>>

\* A plausible slip: the counter read but not advanced.
m_incr_load_only(t) ==
    /\ m_pc[t] = "incr"
    /\ m_rec' = [m_rec EXCEPT ![t].msg_id = _msg_counter, ![t].n = @ + 1]
    /\ given' = Append(given, <<t, _msg_counter>>)
    /\ m_pc' = [m_pc EXCEPT ![t] = "format"]
    /\ UNCHANGED <<logger_vars, now, call_vars, err_vars, thread_vars, seq_vars,
                   sink_vars, sink_hist, sink_threads>>

\* logger.h:384: msg.msg_id = _msg_counter.fetch_add(1, relaxed), one atomic step
m_incr(t) ==
    /\ m_pc[t] = "incr"
    /\ m_rec' = [m_rec EXCEPT ![t].msg_id = _msg_counter, ![t].n = @ + 1]
    /\ _msg_counter' = _msg_counter + 1
    /\ given' = Append(given, <<t, _msg_counter>>)
    /\ m_pc' = [m_pc EXCEPT ![t] = "format"]
    /\ UNCHANGED <<logger_vars, now, call_vars, err_vars, thread_vars,
                   SPDLOG_ENABLE_MESSAGE_COUNTER, n_sunk, n_ok, sink_vars, sink_hist,
                   sink_threads>>

\* logger.h:335-347: the formatter called and the record dispatched; when the
\* formatter or a sink throws (~ok) the thread goes on to the catch clauses.
m_format(t, ok) ==
    /\ m_pc[t] = "format"
    /\ m_rec' = [m_rec EXCEPT ![t].formatted = TRUE, ![t].n_at_format = m_rec[t].n]
    /\ m_pc' = [m_pc EXCEPT ![t] = "idle"]
    /\ h_pc' = [h_pc EXCEPT ![t] = IF ok THEN @ ELSE "caught"]
    /\ UNCHANGED <<logger_vars, now, call_vars, err_vars, h_now, seq_vars, given,
                   sink_vars, sink_hist, sink_threads>>

MLog    == \E t \in Threads, lvl \in Levels, renders \in BOOLEAN : m_log(t, lvl, renders)
MCatch  == \E t \in Threads : m_catch(t)
MIncr   == \E t \in Threads : m_incr(t)
MFormat == \E t \in Threads, ok \in BOOLEAN : m_format(t, ok)

(***************************************************************************)
(* The wall clock.                                                         *)
(***************************************************************************)
ClockStart == StartHour * 3600

\* The instants at which the error handler's clock is read.
ErrClock == {ClockStart + k * 60 + e : k \in 0 .. MaxWindows, e \in {0, 59}}

\* Time passes between two calls.
Tick ==
    /\ \E t \in ErrClock :
          /\ t > now
          /\ now' = t
    /\ UNCHANGED <<logger_vars, call_vars, err_vars, thread_vars, sink_vars, sink_hist>>
    /\ UNCHANGED <<seq_vars, seq_threads, sink_threads>>

(***************************************************************************)
(* hourly_file_sink                                                        *)
(***************************************************************************)

\* details::os::localtime: the calendar fields of a time_t.  The year, month
\* and day of the month are kept together as the day number.
localtime(t) == [mday |-> t \div 86400, hour |-> (t % 86400) \div 3600,
                 min |-> (t % 3600) \div 60, sec |-> t % 60]

\* std::mktime: the time_t of calendar fields.
mktime(tm) == tm.mday * 86400 + tm.hour * 3600 + tm.min * 60 + tm.sec

\* The hour a time lies in, counted from the epoch.
HourIdx(t) == t \div 3600

\* A plausible slip: the name built from the day alone, as the daily sink does.
calc_filename_daily(t) ==
    LET tm == localtime(t) IN <<"app", tm.mday, 0, ".log">>

\* houronly_daily_file_name_calculator::calc_filename (hourly_file_sink.hpp:27-35)
\* when the clock reads t: basename_YYYY-MM-DD-HH ext.
calc_filename(t) ==
    LET tm == localtime(t) IN <<"app", tm.mday, tm.hour, ".log">>

\* A plausible slip: the minutes and seconds not zeroed.
next_rotation_tp_unaligned(t) == t + 3600

\* A plausible slip: the hour not added before the fields are zeroed.
next_rotation_tp_this_hour(t) ==
    LET date == [localtime(t) EXCEPT !.min = 0, !.sec = 0]
    IN  mktime(date)

\* hourly_file_sink::_next_rotation_tp (hourly_file_sink.hpp:79-89) when the
\* clock reads t.
_next_rotation_tp(t) ==
    LET tnext == t + 3600
        date == [localtime(tnext) EXCEPT !.min = 0, !.sec = 0]
    IN  mktime(date)

\* The instants at which the sink's clock is read.
SinkClock == {(StartHour + h) * 3600 + o : h \in 0 .. MaxHours, o \in {0, 3599}}

\* What a _sink_it did: the record's timestamp, the clock value t it
\* compared with the deadline, how the operation before it ended, the
\* deadline and file it found, the file it wrote to, its steps in order, and
\* the most handles open at once during it.
NoOp == [done |-> FALSE, failed |-> FALSE, msg_time |-> 0, t |-> 0,
         prev_end |-> 0, prev_write |-> FALSE, prev_failed |-> FALSE,
         tp_before |-> 0, file_before |-> <<>>, file |-> <<>>,
         opens |-> 0, flushes |-> 0, acts |-> <<>>, asked |-> FALSE, peak |-> 0]

\* details::file_helper::open (details/file_helper.h): the handle held is
\* closed, then the new file is opened, and a failure to open is thrown.
file_helper_open(ok) ==
    IF ok THEN <<"close", "open">> ELSE <<"close", "open_failed", "throw">>

\* A plausible slip: a new helper opened for the new file, the old one kept.
rotate_open_fresh(ok) ==
    IF ok THEN <<"open">> ELSE <<"open_failed", "throw">>

\* hourly_file_sink.hpp:65: the sink's one _file_helper reopened.
rotate_open(ok) == file_helper_open(ok)

\* A plausible slip: the comparison made with the record's own time.
must_rotate_msg_time(msg_time, t1) == msg_time >= _rotation_tp

\* hourly_file_sink.hpp:63: system_clock::now() >= _rotation_tp, for a record
\* stamped msg_time when the clock reads t1.
must_rotate(msg_time, t1) == t1 >= _rotation_tp

\* A plausible slip: the failure to open caught and the write carried on.
sink_it_steps_swallow(rotate, ok, force) ==
    (IF rotate THEN SubSeq(rotate_open(ok), 1, 2) \o <<"deadline">> ELSE <<>>)
    \o <<"write">> \o (IF force THEN <<"flush">> ELSE <<>>)

\* The steps of hourly_file_sink::_sink_it (hourly_file_sink.hpp:61-71) in
\* order: an exception thrown by open leaves the function at line 65.
sink_it_steps(rotate, ok, force) ==
    LET opened == IF rotate THEN rotate_open(ok) ELSE <<>>
    IN  IF rotate /\ ~ok THEN opened
        ELSE opened \o (IF rotate THEN <<"deadline">> ELSE <<>>) \o <<"write">>
                    \o (IF force THEN <<"flush">> ELSE <<>>)

Did(acts, a) == \E k \in 1 .. Len(acts) : acts[k] = a

Count(acts, a) == Cardinality({k \in 1 .. Len(acts) : acts[k] = a})

\* The handles open after the steps acts, starting with h open.
RECURSIVE handles_after(_, _)
handles_after(acts, h) ==
    IF acts = <<>> THEN h
    ELSE LET a == Head(acts)
             h2 == CASE a = "close" -> IF h > 0 THEN h - 1 ELSE 0
                      [] a = "open" -> h + 1
                      [] OTHER -> h
         IN  handles_after(Tail(acts), h2)

\* The most handles open at once during the steps acts, starting with h open.
handles_peak(acts, h) ==
    LET after(k) == handles_after(SubSeq(acts, 1, k), h)
        reached == {after(k) : k \in 0 .. Len(acts)}
    IN  CHOOSE m \in reached : \A n \in reached : n <= m

\* hourly_file_sink::_sink_it (hourly_file_sink.hpp:61-71) for a record
\* stamped msg_time.  The clock reads t1 at line 63, t2 in calc_filename
\* (line 29) and t3 in _next_rotation_tp (line 81); the last two happen only
\* when the sink rotates, the last only when the open succeeded (ok).
hourly_sink_it(msg_time, t1, t2, t3, ok) ==
    /\ now <= msg_time /\ msg_time <= t1 /\ t1 <= t2 /\ t2 <= t3
    /\ LET rotate == must_rotate(msg_time, t1)
           acts == sink_it_steps(rotate, ok, _force_flush)
           named == IF Did(acts, "open") \/ Did(acts, "open_failed")
                    THEN calc_filename(t2) ELSE cur_file
           reset == Did(acts, "deadline")
           wrote == Did(acts, "write")
       IN  /\ rotate \/ (t2 = t1 /\ ok)
           /\ reset \/ t3 = t2
           /\ cur_file' = named
           /\ handles' = handles_after(acts, handles)
           /\ _rotation_tp' = IF reset THEN _next_rotation_tp(t3) ELSE _rotation_tp
           /\ tp_read' = IF reset THEN t3 ELSE tp_read
           /\ rotations' = IF Did(acts, "open")
                           THEN Min(rotations + 1, MaxHours + 2) ELSE rotations
           /\ retired' = IF named # cur_file THEN retired \cup {cur_file} ELSE retired
           /\ torn' = (torn \/ HourIdx(t1) # HourIdx(t3))
           /\ sink_op' = [done |-> wrote, failed |-> Did(acts, "throw"),
                          msg_time |-> msg_time, t |-> t1,
                          prev_end |-> now, prev_write |-> sink_op.done,
                          prev_failed |-> sink_op.failed,
                          tp_before |-> _rotation_tp, file_before |-> cur_file,
                          file |-> named,
                          opens |-> Count(acts, "open"),
                          flushes |-> Count(acts, "flush"),
                          acts |-> acts, asked |-> ff_asked,
                          peak |-> handles_peak(acts, handles)]
    /\ now' = t3
    /\ UNCHANGED <<logger_vars, call_vars, err_vars, thread_vars, _force_flush,
                   ctor_time, ff_asked>>
    /\ UNCHANGED <<seq_vars, seq_threads, sink_threads>>

\* The instants of the sink's clock from t on.
From(t) == {u \in SinkClock : u >= t}

\* A record stamped as the sink receives it.
StampedNow(t1) == {t1}

\* A record stamped at any instant since the operation before.
StampedBefore(t1) == {u \in SinkClock : now <= u /\ u <= t1}

\* _sink_it with every course the clock and the open can take, for a record
\* stamped as it is received or, if early, at any instant before.
sink_it_any(early) ==
    \E t1 \in From(now) :
        \E msg_time \in (IF early THEN StampedBefore(t1) ELSE StampedNow(t1)) :
            IF ~must_rotate(msg_time, t1)
            THEN hourly_sink_it(msg_time, t1, t1, t1, TRUE)
            ELSE \E t2 \in From(t1) :
                    \/ hourly_sink_it(msg_time, t1, t2, t2, FALSE)
                    \/ \E t3 \in From(t2) : hourly_sink_it(msg_time, t1, t2, t3, TRUE)

SinkIt == sink_it_any(FALSE)

SinkItStamped == sink_it_any(TRUE)

\* A plausible slip: the argument not stored.
set_force_flush_ignored(force_flush) ==
    /\ ff_asked' = force_flush
    /\ UNCHANGED <<logger_vars, now, call_vars, err_vars, thread_vars, sink_vars,
                   ctor_time, sink_op, rotations, retired, tp_read, torn>>
    /\ UNCHANGED <<seq_vars, seq_threads, sink_threads>>

\* hourly_file_sink::set_force_flush (hourly_file_sink.hpp:55-58)
set_force_flush(force_flush) ==
    /\ _force_flush' = force_flush
    /\ ff_asked' = force_flush
    /\ UNCHANGED <<logger_vars, now, call_vars, err_vars, thread_vars,
                   _rotation_tp, cur_file, handles,
                   ctor_time, sink_op, rotations, retired, tp_read, torn>>
    /\ UNCHANGED <<seq_vars, seq_threads, sink_threads>>

SetForceFlush == \E b \in BOOLEAN : set_force_flush(b)

(***************************************************************************)
(* Threads inside the sink.  base_sink<Mutex>::log and ::flush (sinks/     *)
(* base_sink.h) lock _mutex for the length of _sink_it and _flush; the     *)
(* statements of _sink_it (hourly_file_sink.hpp:61-71) run one at a time,  *)
(* each reading the clock as it stands.  set_force_flush takes no lock.    *)
(***************************************************************************)

\* tp_here: the deadline at which open was last called; calls_here and
\* opens_here: the calls of open made at that deadline and those of them that
\* succeeded, up to 2; retried and reopened: some deadline has seen more than
\* one call, more than one successful open; torn_write: a write was made while
\* another thread stood between its open and its deadline update; stale_write:
\* a write was made with no handle open; raised: a log call ended in a fault;
\* wrote and flushed: a write, a flush was made.
NoLog == [tp_here |-> 0, calls_here |-> 0, opens_here |-> 0,
          retried |-> FALSE, reopened |-> FALSE,
          torn_write |-> FALSE, stale_write |-> FALSE, raised |-> FALSE,
          wrote |-> FALSE, flushed |-> FALSE]

\* A plausible slip: the unlocked sink handed to several threads.
Mutex_st == "null_mutex"

\* hourly_file_sink.hpp:99: typedef hourly_file_sink<std::mutex> hourly_file_sink_mt
Mutex == "std::mutex"

\* The pc values of a thread that is past the lock.
InsidePcs == {"check", "open", "deadline", "write", "force", "flushing", "unlock"}

\* A thread calls the sink's log and comes to the lock.
s_enter(t) ==
    /\ s_pc[t] = "idle"
    /\ s_pc' = [s_pc EXCEPT ![t] = "wait"]
    /\ UNCHANGED <<logger_vars, now, call_vars, err_vars, thread_vars, seq_vars,
                   seq_threads, sink_vars, sink_hist, _mutex, s_log>>

\* base_sink::log: std::lock_guard<Mutex> lock(_mutex); null_mutex locks nothing.
s_lock(t) ==
    /\ s_pc[t] = "wait"
    /\ Mutex = "std::mutex" => _mutex = 0
    /\ _mutex' = IF Mutex = "std::mutex" THEN t ELSE _mutex
    /\ s_pc' = [s_pc EXCEPT ![t] = "check"]
    /\ UNCHANGED <<logger_vars, now, call_vars, err_vars, thread_vars, seq_vars,
                   seq_threads, sink_vars, sink_hist, s_log>>

\* hourly_file_sink.hpp:63: if (system_clock::now() >= _rotation_tp)
s_check(t) ==
    /\ s_pc[t] = "check"
    /\ s_pc' = [s_pc EXCEPT ![t] = IF must_rotate(now, now) THEN "open" ELSE "write"]
    /\ UNCHANGED <<logger_vars, now, call_vars, err_vars, thread_vars, seq_vars,
                   seq_threads, sink_vars, sink_hist, _mutex, s_log>>

\* hourly_file_sink.hpp:65: _file_helper.open(FileNameCalc::calc_filename(...)).
\* An open that throws (~ok) leaves _sink_it and base_sink::log: lines 66-70
\* are skipped and the lock_guard releases the mutex next.
s_open(t, ok) ==
    /\ s_pc[t] = "open"
    /\ cur_file' = calc_filename(now)
    /\ handles' = handles_after(rotate_open(ok), handles)
    /\ LET same == s_log.calls_here > 0 /\ s_log.tp_here = _rotation_tp
           calls == IF same THEN Min(s_log.calls_here + 1, 2) ELSE 1
           opened == (IF same THEN s_log.opens_here ELSE 0) + (IF ok THEN 1 ELSE 0)
       IN  s_log' = [s_log EXCEPT
                        !.tp_here = _rotation_tp,
                        !.calls_here = calls,
                        !.opens_here = Min(opened, 2),
                        !.retried = @ \/ calls > 1,
                        !.reopened = @ \/ opened > 1,
                        !.raised = @ \/ ~ok]
    /\ s_pc' = [s_pc EXCEPT ![t] = IF ok THEN "deadline" ELSE "unlock"]
    /\ UNCHANGED <<logger_vars, now, call_vars, err_vars, thread_vars, seq_vars,
                   seq_threads, _rotation_tp, _force_flush, sink_hist, _mutex>>

\* hourly_file_sink.hpp:66: _rotation_tp = _next_rotation_tp()
s_deadline(t) ==
    /\ s_pc[t] = "deadline"
    /\ _rotation_tp' = _next_rotation_tp(now)
    /\ s_pc' = [s_pc EXCEPT ![t] = "write"]
    /\ UNCHANGED <<logger_vars, now, call_vars, err_vars, thread_vars, seq_vars,
                   seq_threads, _force_flush, cur_file, handles, sink_hist,
                   _mutex, s_log>>

\* hourly_file_sink.hpp:68: _file_helper.write(msg)
s_write(t) ==
    /\ s_pc[t] = "write"
    /\ s_log' = [s_log EXCEPT
                    !.torn_write = @ \/ (\E u \in Threads \ {t} : s_pc[u] = "deadline"),
                    !.stale_write = @ \/ handles = 0,
                    !.wrote = TRUE]
    /\ s_pc' = [s_pc EXCEPT ![t] = "force"]
    /\ UNCHANGED <<logger_vars, now, call_vars, err_vars, thread_vars, seq_vars,
                   seq_threads, sink_vars, sink_hist, _mutex>>

\* hourly_file_sink.hpp:69-70: if (_force_flush) _file_helper.flush()
s_force(t) ==
    /\ s_pc[t] = "force"
    /\ s_log' = [s_log EXCEPT !.flushed = @ \/ _force_flush]
    /\ s_pc' = [s_pc EXCEPT ![t] = "unlock"]
    /\ UNCHANGED <<logger_vars, now, call_vars, err_vars, thread_vars, seq_vars,
                   seq_threads, sink_vars, sink_hist, _mutex>>

\* base_sink::flush: a thread calls the sink's flush and takes the lock.
s_flush_lock(t) ==
    /\ s_pc[t] = "idle"
    /\ Mutex = "std::mutex" => _mutex = 0
    /\ _mutex' = IF Mutex = "std::mutex" THEN t ELSE _mutex
    /\ s_pc' = [s_pc EXCEPT ![t] = "flushing"]
    /\ UNCHANGED <<logger_vars, now, call_vars, err_vars, thread_vars, seq_vars,
                   seq_threads, sink_vars, sink_hist, s_log>>

\* hourly_file_sink::_flush (hourly_file_sink.hpp:73-76): _file_helper.flush()
s_flush(t) ==
    /\ s_pc[t] = "flushing"
    /\ s_log' = [s_log EXCEPT !.flushed = TRUE]
    /\ s_pc' = [s_pc EXCEPT ![t] = "unlock"]
    /\ UNCHANGED <<logger_vars, now, call_vars, err_vars, thread_vars, seq_vars,
                   seq_threads, sink_vars, sink_hist, _mutex>>

\* base_sink::log or ::flush returns or is left by a fault: the lock_guard
\* releases _mutex.
s_unlock(t) ==
    /\ s_pc[t] = "unlock"
    /\ _mutex' = IF _mutex = t THEN 0 ELSE _mutex
    /\ s_pc' = [s_pc EXCEPT ![t] = "idle"]
    /\ UNCHANGED <<logger_vars, now, call_vars, err_vars, thread_vars, seq_vars,
                   seq_threads, sink_vars, sink_hist, s_log>>

\* The sink's clock moves on.
SinkTick ==
    /\ \E t \in SinkClock :
          /\ t > now
          /\ now' = t
    /\ UNCHANGED <<logger_vars, call_vars, err_vars, thread_vars, seq_vars,
                   seq_threads, sink_vars, sink_hist, sink_threads>>

SEnter     == \E t \in Threads : s_enter(t)
SLock      == \E t \in Threads : s_lock(t)
SCheck     == \E t \in Threads : s_check(t)
SOpen      == \E t \in Threads, ok \in BOOLEAN : s_open(t, ok)
SDeadline  == \E t \in Threads : s_deadline(t)
SWrite     == \E t \in Threads : s_write(t)
SForce     == \E t \in Threads : s_force(t)
SFlushLock == \E t \in Threads : s_flush_lock(t)
SFlush     == \E t \in Threads : s_flush(t)
SUnlock    == \E t \in Threads : s_unlock(t)

(***************************************************************************)
(* Construction                                                            *)
(***************************************************************************)
SinkLevels == {LevelOf("trace"), LevelOf("err")}

SinkLists == UNION {[1 .. n -> SinkLevels] : n \in 0 .. NumSinks}

\* logger::logger (logger.h:42-53) with the given sinks, at clock value t.
logger_ctor(sinks_list, t) ==
    /\ _name = "logger"
    /\ _sinks = sinks_list
    /\ _level = LevelOf("info")
    /\ _flush_level = LevelOf("off")
    /\ _last_err_time = 0
    /\ now = t
    /\ stderr_lines = <<>>
    /\ call = NoCall
    /\ events = <<>>
    /\ err_msgs = <<>>
    /\ outcome = "none"
    /\ first_err_call = -1
    /\ last_err_call = 0
    /\ h_pc = [t2 \in Threads |-> "idle"]
    /\ h_now = [t2 \in Threads |-> 0]
    /\ _msg_counter = 1
    /\ n_sunk = 0
    /\ n_ok = 0
    /\ m_pc = [t2 \in Threads |-> "idle"]
    /\ m_rec = [t2 \in Threads |-> NoRec]
    /\ given = <<>>

\* hourly_file_sink::hourly_file_sink (hourly_file_sink.hpp:46-53): the clock
\* reads t1 in _next_rotation_tp (line 51) and t2 in calc_filename (line 52).
hourly_file_sink_ctor(t1, t2) ==
    /\ _rotation_tp = _next_rotation_tp(t1)
    /\ cur_file = calc_filename(t2)
    /\ handles = handles_after(<<"open">>, 0)
    /\ _force_flush = FALSE
    /\ ff_asked = FALSE
    /\ _mutex = 0
    /\ s_pc = [t \in Threads |-> "idle"]
    /\ s_log = NoLog
    /\ ctor_time = t1
    /\ tp_read = t1
    /\ sink_op = NoOp
    /\ rotations = 0
    /\ retired = {}
    /\ torn = (HourIdx(t1) # HourIdx(t2))

\* A logger with any sinks; the file sink stands constructed beside it.
Init ==
    /\ \E sl \in SinkLists : logger_ctor(sl, ClockStart)
    /\ hourly_file_sink_ctor(ClockStart, ClockStart)
    /\ SPDLOG_ENABLE_MESSAGE_COUNTER = FALSE

Next == Log \/ SetLevel \/ FlushOn

Spec == Init /\ [][Next]_vars

\* One thread whose every call faults, as the clock advances, between the
\* calls and inside the error handler.
LogFault ==
    \E c \in Calls, t_write \in ErrClock :
        c.lvl = LevelOf("critical") /\ c.stage # NoStage /\ log(c, t_write)

NextErr == LogFault \/ Tick

InitErr ==
    /\ logger_ctor([i \in 1 .. NumSinks |-> LevelOf("trace")], ClockStart)
    /\ hourly_file_sink_ctor(ClockStart, ClockStart)
    /\ SPDLOG_ENABLE_MESSAGE_COUNTER = FALSE

SpecErr == InitErr /\ [][NextErr]_vars

\* Several threads whose every call faults, as the clock advances.
NextThreads == HEnter \/ HCheck \/ HEmit \/ HStore \/ Tick

SpecThreads == InitErr /\ [][NextThreads]_vars

\* The file sink alone, constructed in the first hour and written to later.
InitSink ==
    \E t1, t2 \in SinkClock :
       /\ t1 <= t2
       /\ HourIdx(t1) = StartHour
       /\ HourIdx(t2) <= StartHour + 1
       /\ logger_ctor(<<>>, t2)
       /\ hourly_file_sink_ctor(t1, t2)
       /\ SPDLOG_ENABLE_MESSAGE_COUNTER = FALSE

NextSink == SinkIt \/ SetForceFlush

SpecSink == InitSink /\ [][NextSink]_vars

\* The file sink constructed at the first instant, handed records stamped
\* before it receives them.
InitStamped ==
    /\ logger_ctor(<<>>, ClockStart)
    /\ hourly_file_sink_ctor(ClockStart, ClockStart)
    /\ SPDLOG_ENABLE_MESSAGE_COUNTER = FALSE

NextStamped == SinkItStamped

SpecStamped == InitStamped /\ [][NextStamped]_vars

\* The locking sink, constructed at the first instant and shared by threads.
NextSinkThreads ==
    \/ SEnter \/ SLock \/ SCheck \/ SOpen \/ SDeadline \/ SWrite \/ SForce
    \/ SFlushLock \/ SFlush \/ SUnlock \/ SetForceFlush \/ SinkTick

SpecSinkThreads == InitStamped /\ [][NextSinkThreads]_vars

\* A logger built with SPDLOG_ENABLE_MESSAGE_COUNTER, used by one thread.
InitSeq ==
    /\ \E sl \in SinkLists : logger_ctor(sl, ClockStart)
    /\ hourly_file_sink_ctor(ClockStart, ClockStart)
    /\ SPDLOG_ENABLE_MESSAGE_COUNTER = TRUE

NextSeq == Log

SpecSeq == InitSeq /\ [][NextSeq]_vars

\* The same build, used by several threads at once.
InitSeqThreads ==
    /\ logger_ctor([i \in 1 .. NumSinks |-> LevelOf("trace")], ClockStart)
    /\ hourly_file_sink_ctor(ClockStart, ClockStart)
    /\ SPDLOG_ENABLE_MESSAGE_COUNTER = TRUE

NextSeqThreads == MLog \/ MCatch \/ MIncr \/ MFormat \/ HCheck \/ HEmit \/ HStore

SpecSeqThreads == InitSeqThreads /\ [][NextSeqThreads]_vars

(***************************************************************************)
(* Properties                                                              *)
(***************************************************************************)
Made(e) == \E k \in 1 .. Len(events) : events[k] = e

\* The last call passed the logger's gate.
Passed == outcome \in {"returned", "rethrown"}

\* The fault of the last call was raised: its stage was reached.
Raised ==
    /\ Passed
    /\ call.stage # NoStage
    /\ call.stage[1] = "log" => Made(call.stage)

IsFlush(e) == e[1] = "flush"

\* C1: a call below the logger's threshold builds no record, formats nothing,
\* touches no sink and hands nothing to the error handler, whatever sinks are
\* attached and whatever was logged before.
SeverityGate_C1 ==
    (outcome # "none" /\ call.lvl < _level) =>
        (events = <<>> /\ err_msgs = <<>> /\ outcome = "gated")

SeverityGate_C1_witness ==
    /\ outcome = "gated"
    /\ call.lvl < _level
    /\ call.lvl > LevelOf("trace")
    /\ Len(_sinks) = NumSinks
    /\ stderr_lines # <<>>

\* C2: when the first sink's log fails, the second sink is still handed every
\* record that passes the logger's gate and its own.
SinkIsolation_C2 ==
    (/\ Passed
     /\ Len(_sinks) >= 2
     /\ call.stage = <<"log", 1>>
     /\ Made(<<"log", 1>>)
     /\ sink_should_log(2, call.lvl)) => Made(<<"log", 2>>)

\* C3: a call that passes the gate and in which nothing fails flushes every
\* sink once, in the order of attachment and after every sink was offered the
\* record, exactly when its severity is at least the flush threshold and is
\* not off; otherwise it flushes no sink.
FlushPredicate_C3 ==
    (outcome = "returned" /\ err_msgs = <<>>) =>
        LET flushes == SelectSeq(events, IsFlush)
        IN  IF call.lvl >= _flush_level /\ call.lvl # LevelOf("off")
            THEN /\ flushes = [i \in 1 .. Len(_sinks) |-> <<"flush", i>>]
                 /\ \A j, k \in 1 .. Len(events) :
                       (IsFlush(events[j]) /\ ~IsFlush(events[k])) => k < j
                 /\ \A i \in 1 .. Len(_sinks) : Made(<<"should_log", i>>)
            ELSE flushes = <<>>

FlushPredicate_C3_witness ==
    /\ outcome = "returned"
    /\ err_msgs = <<>>
    /\ call.lvl = LevelOf("warn")
    /\ _flush_level = LevelOf("warn")
    /\ Len(_sinks) = NumSinks
    /\ Made(<<"flush", NumSinks>>)
    /\ Made(<<"log", 1>>)

\* C4: a recognized fault raised while rendering, formatting or in a sink's
\* log is handed to the error handler once, as its message, and the call
\* returns normally.
RecognizedFault_C4 ==
    (Raised /\ call.fault.kind = "std") =>
        (err_msgs = <<<<call.fault.what>>>> /\ outcome = "returned")

RecognizedFault_C4_witness ==
    /\ Raised
    /\ call.fault.kind = "std"
    /\ call.stage = <<"log", NumSinks>>
    /\ outcome = "returned"

\* C5: an unrecognized fault is announced to the error handler once, with a
\* message naming the logger, and then leaves the call.
UnknownFault_C5 ==
    (Raised /\ call.fault.kind = "unknown") =>
        (/\ err_msgs = <<<<"Unknown exception in logger ", _name>>>>
         /\ outcome = "rethrown")

UnknownFault_C5_witness ==
    /\ Raised
    /\ call.fault.kind = "unknown"
    /\ call.stage = <<"format", 0>>
    /\ outcome = "rethrown"

\* Any two lines on stderr are at least 60 seconds apart.
LinesApart ==
    \A i, j \in 1 .. Len(stderr_lines) :
        i < j => stderr_lines[j] - stderr_lines[i] >= 60

\* C6: with one thread, any two lines of the default error handler are
\* written at least 60 seconds apart, and its first invocation writes a line.
Throttle_C6 ==
    /\ LinesApart
    /\ first_err_call >= 0 => stderr_lines # <<>>

\* C7: with several threads faulting, the lines of the default error handler
\* are still at least 60 seconds apart.
ThrottleThreads_C7 == LinesApart

\* The hour, counted from the epoch, that a file's name stands for.
FileHour(f) == f[2] * 24 + f[3]

\* C8: while the clock has crossed at most one hour boundary since the
\* sink was constructed, every write lands in the file named for the hour of
\* the write and never in a file rotated away from; the writes made before
\* the boundary have reopened no file, and those made at or after it exactly
\* one.
RotationCorrect_C8 ==
    (sink_op.done /\ HourIdx(now) <= HourIdx(ctor_time) + 1) =>
        /\ FileHour(sink_op.file) = HourIdx(sink_op.t)
        /\ sink_op.file \notin retired
        /\ HourIdx(sink_op.t) = HourIdx(ctor_time) => rotations = 0
        /\ HourIdx(sink_op.t) = HourIdx(ctor_time) + 1 => rotations = 1

RotationCorrect_C8_witness ==
    /\ sink_op.done
    /\ HourIdx(now) = HourIdx(ctor_time) + 1
    /\ sink_op.prev_write
    /\ HourIdx(sink_op.prev_end) = HourIdx(ctor_time) + 1
    /\ sink_op.opens = 0
    /\ rotations = 1
    /\ retired = {calc_filename(ctor_time)}

\* C9: a write that comes a whole hour or more after the end of the operation
\* before it reopens the file exactly once, under the name of an hour the
\* clock showed during that write, and a write in the same hour as the end
\* of the write before it reopens nothing.
CatchUp_C9 ==
    sink_op.done =>
        /\ sink_op.t - sink_op.prev_end >= 3600 =>
              /\ sink_op.opens = 1
              /\ HourIdx(sink_op.t) <= FileHour(sink_op.file)
              /\ FileHour(sink_op.file) <= HourIdx(now)
        /\ (sink_op.prev_write /\ HourIdx(sink_op.t) = HourIdx(sink_op.prev_end)) =>
              sink_op.opens = 0

CatchUp_C9_witness ==
    /\ sink_op.done
    /\ sink_op.t - sink_op.prev_end >= 2 * 3600
    /\ sink_op.opens = 1
    /\ rotations = 1
    /\ FileHour(sink_op.file) = HourIdx(sink_op.t)
    /\ FileHour(sink_op.file) >= FileHour(calc_filename(ctor_time)) + 2

\* C10: the deadline is later than the clock value it was computed from, at
\* most an hour later, and has minutes and seconds zero.
DeadlineInvariant_C10 ==
    /\ _rotation_tp > tp_read
    /\ _rotation_tp <= tp_read + 3600
    /\ localtime(_rotation_tp).min = 0
    /\ localtime(_rotation_tp).sec = 0

DeadlineInvariant_C10_witness ==
    /\ rotations >= 1
    /\ torn
    /\ _rotation_tp = tp_read + 3600

\* The sink's last operation tried to open a file: it reached line 65.
TriedOpen == Did(sink_op.acts, "open") \/ Did(sink_op.acts, "open_failed")

\* C12: when the open of a rotation fails, the operation raises a fault,
\* writes and flushes nothing, leaves the deadline as it was and tries the open
\* once only; the operation after a failed one tries the rotation again.
OpenFailure_C12 ==
    /\ Did(sink_op.acts, "open_failed") =>
          /\ sink_op.failed
          /\ ~sink_op.done
          /\ ~Did(sink_op.acts, "write")
          /\ ~Did(sink_op.acts, "flush")
          /\ _rotation_tp = sink_op.tp_before
          /\ Count(sink_op.acts, "open_failed") = 1
          /\ sink_op.opens = 0
    /\ sink_op.prev_failed => TriedOpen

OpenFailure_C12_witness ==
    /\ sink_op.prev_failed
    /\ sink_op.done
    /\ sink_op.opens = 1
    /\ _rotation_tp > sink_op.tp_before

\* C13 as stated: exactly one handle is open in every state of the sink.
SingleHandle_C13_original == handles = 1

\* C13: never more than one handle is open, during an operation or after it,
\* and exactly one is open unless the last operation failed to open its file.
SingleHandle_C13 ==
    /\ handles <= 1
    /\ sink_op.peak <= 1
    /\ ~sink_op.failed => handles = 1

SingleHandle_C13_witness ==
    /\ sink_op.done
    /\ sink_op.opens = 1
    /\ sink_op.prev_failed
    /\ handles = 1

\* C14: a write is followed at once by exactly one flush when the last
\* set_force_flush asked for it, and by none when it did not or when
\* set_force_flush was never called.
ForceFlush_C14 ==
    /\ sink_op.done =>
          /\ sink_op.flushes = (IF sink_op.asked THEN 1 ELSE 0)
          /\ sink_op.asked =>
                /\ sink_op.acts[Len(sink_op.acts)] = "flush"
                /\ sink_op.acts[Len(sink_op.acts) - 1] = "write"
          /\ ~sink_op.asked => sink_op.acts[Len(sink_op.acts)] = "write"
    /\ ~sink_op.done => sink_op.flushes = 0

ForceFlush_C14_witness ==
    /\ sink_op.done
    /\ sink_op.asked
    /\ sink_op.flushes = 1
    /\ sink_op.prev_write

\* C18 as stated: a record stamped before the deadline is written to the file
\* that was open and causes no rotation.
StampDrivesRotation_C18_original ==
    (sink_op.done /\ sink_op.msg_time < sink_op.tp_before) =>
        /\ sink_op.opens = 0
        /\ sink_op.file = sink_op.file_before

\* C18: the sink rotates exactly when the clock read in the operation has
\* reached the deadline, whatever the record's own time stamp.
StampDrivesRotation_C18 ==
    sink_op.acts # <<>> => (TriedOpen <=> sink_op.t >= sink_op.tp_before)

StampDrivesRotation_C18_witness ==
    /\ sink_op.done
    /\ sink_op.msg_time < sink_op.tp_before
    /\ sink_op.tp_before <= sink_op.t
    /\ sink_op.opens = 1
    /\ sink_op.file # sink_op.file_before

\* C19: after construction and after each completed operation the deadline is
\* the start of the hour after the hour in the open file's name.
FileDeadline_C19 ==
    (sink_op.acts = <<>> \/ sink_op.done) =>
        _rotation_tp = (FileHour(cur_file) + 1) * 3600

IsAsk(e) == e[1] = "should_log"

\* The formatter ran exactly once in the last call.
FormatOnce == Cardinality({k \in 1 .. Len(events) : events[k] = <<"format", 0>>}) = 1

\* What the last call did to the sinks: every sink call comes after the
\* formatter's, the sinks are asked in the order of attachment, a sink's log
\* directly follows its own should_log and only where that passes, and a fault
\* of the formatter leaves every sink untouched.
DispatchShape ==
    /\ \A k \in 1 .. Len(events) :
          events[k][1] \in {"should_log", "log", "flush"} =>
              \E j \in 1 .. (k - 1) : events[j] = <<"format", 0>>
    /\ LET asked == SelectSeq(events, IsAsk)
       IN  /\ Len(asked) <= Len(_sinks)
           /\ \A k \in 1 .. Len(asked) : asked[k][2] = k
    /\ \A k \in 1 .. Len(events) :
          events[k][1] = "log" =>
              /\ sink_should_log(events[k][2], call.lvl)
              /\ k > 1
              /\ events[k - 1] = <<"should_log", events[k][2]>>
    /\ call.stage = <<"format", 0>> =>
          \A k \in 1 .. Len(events) : events[k][1] \notin {"should_log", "log", "flush"}

\* C15 as stated: every call that passes the gate runs the formatter once,
\* before the sinks, which are offered the record in order.
DispatchOrder_C15_original == Passed => (FormatOnce /\ DispatchShape)

\* C15: a call that passes the gate and whose payload is rendered without a
\* fault runs the formatter exactly once, before any sink call, and offers
\* the sinks the record in order, each through its own gate; a fault of the
\* formatter leaves the sinks untouched; a call whose rendering faults never
\* reaches the formatter or a sink.
DispatchOrder_C15 ==
    /\ (Passed /\ call.stage # <<"render", 0>>) => (FormatOnce /\ DispatchShape)
    /\ (Passed /\ call.stage = <<"render", 0>>) => events = <<<<"record", 0>>>>

DispatchOrder_C15_witness ==
    /\ outcome = "returned"
    /\ call.stage = NoStage
    /\ Len(_sinks) = NumSinks
    /\ ~sink_should_log(1, call.lvl)
    /\ ~Made(<<"log", 1>>)
    /\ Made(<<"should_log", 1>>)
    /\ Made(<<"log", NumSinks>>)

\* C20: a call in which nothing fails and whose severity reaches the flush
\* threshold flushes every sink, also those whose own gate kept the record
\* from them; a call at severity off passes the logger's gate under every
\* threshold and flushes nothing.
FlushAll_C20 ==
    /\ (outcome = "returned" /\ err_msgs = <<>>
        /\ call.lvl >= _flush_level /\ call.lvl # LevelOf("off")) =>
          \A i \in 1 .. Len(_sinks) :
             /\ Made(<<"flush", i>>)
             /\ ~sink_should_log(i, call.lvl) => ~Made(<<"log", i>>)
    /\ (outcome # "none" /\ call.lvl = LevelOf("off")) =>
          /\ Passed
          /\ \A k \in 1 .. Len(events) : ~IsFlush(events[k])

FlushAll_C20_witness ==
    /\ outcome = "returned"
    /\ err_msgs = <<>>
    /\ call.lvl = LevelOf("warn")
    /\ _flush_level <= LevelOf("warn")
    /\ Len(_sinks) = NumSinks
    /\ ~sink_should_log(NumSinks, call.lvl)
    /\ ~Made(<<"log", NumSinks>>)
    /\ Made(<<"flush", NumSinks>>)

\* The last call reached _sink_it: it passed the gate and was rendered.
Sunk == Passed /\ call.stage # <<"render", 0>>

\* C16 as stated: the counter is 1 plus the number of records dispatched
\* without a fault.
SequenceCounter_C16_original ==
    SPDLOG_ENABLE_MESSAGE_COUNTER => _msg_counter = 1 + n_ok

\* C16: the counter is 1 plus the number of records handed to _sink_it,
\* whether or not formatting and the sinks then succeed; a call takes its id
\* as the first step of _sink_it, before the formatter runs, and a call that
\* is gated or whose rendering faults takes none.
SequenceCounter_C16 ==
    SPDLOG_ENABLE_MESSAGE_COUNTER =>
        /\ _msg_counter = 1 + n_sunk
        /\ Sunk => /\ Cardinality(IdsTaken(events)) = 1
                   /\ events[2] = <<"msg_id", _msg_counter - 1>>
                   /\ events[3] = <<"format", 0>>
        /\ (outcome # "none" /\ ~Sunk) => IdsTaken(events) = {}

SequenceCounter_C16_witness ==
    /\ SPDLOG_ENABLE_MESSAGE_COUNTER
    /\ Raised
    /\ call.stage = <<"log", 1>>
    /\ n_ok >= 1
    /\ n_sunk > n_ok
    /\ _msg_counter = 1 + n_sunk

\* The ids given out are pairwise distinct and grow within each thread.
IdsDistinctIncreasing ==
    \A i, j \in 1 .. Len(given) :
        i < j => /\ given[i][2] # given[j][2]
                 /\ given[i][1] = given[j][1] => given[i][2] < given[j][2]

\* C17 as stated: every record that passed the gate has its id set exactly
\* once by the time the call formats it or ends; ids are distinct and grow
\* within a thread.
SequenceIds_C17_original ==
    /\ \A t \in Threads :
          (m_rec[t].passed /\ m_pc[t] \in {"format", "idle"}) => m_rec[t].n = 1
    /\ IdsDistinctIncreasing

\* C17: every record that passed the gate and was rendered has its id set
\* exactly once, before it is formatted; a record whose rendering faulted
\* gets none; ids are distinct across threads and grow within a thread.
SequenceIds_C17 ==
    /\ \A t \in Threads :
          /\ (m_rec[t].rendered /\ m_pc[t] \in {"format", "idle"}) => m_rec[t].n = 1
          /\ m_rec[t].formatted => m_rec[t].n_at_format = 1
          /\ (m_rec[t].passed /\ ~m_rec[t].rendered) => m_rec[t].n = 0
    /\ IdsDistinctIncreasing

SequenceIds_C17_witness ==
    /\ Len(given) >= 3
    /\ \E i, j, k \in 1 .. Len(given) :
          /\ i < j /\ j < k
          /\ given[i][1] = given[k][1]
          /\ given[j][1] # given[i][1]
    /\ \E t \in Threads : m_rec[t].formatted /\ m_rec[t].msg_id >= 2

\* The threads past the sink's lock: at a statement of _sink_it or _flush, or
\* about to release the lock.
Inside == {t \in Threads : s_pc[t] \in InsidePcs}

\* The threads exclude one another: at most one is past the lock, it holds
\* the mutex, and no write is made while another thread stands between its
\* open and its deadline update.
Exclusive ==
    /\ Cardinality(Inside) <= 1
    /\ \A t \in Inside : _mutex = t
    /\ ~s_log.torn_write

\* C11 as stated: the threads exclude one another and open is called at most
\* once for each deadline.
Serialized_C11_original == Exclusive /\ ~s_log.retried

\* C11: with the locking sink the threads exclude one another, at most one
\* open succeeds for each deadline, and no write is made with no file open:
\* after an open that failed, the next log call opens again for the same
\* deadline before anything is written.
Serialized_C11 ==
    /\ Exclusive
    /\ ~s_log.reopened
    /\ ~s_log.stale_write
    /\ s_log.opens_here <= 1

Serialized_C11_witness ==
    /\ \E t, u \in Threads :
          /\ s_pc[t] = "deadline"
          /\ s_pc[u] = "wait"
    /\ s_log.retried
    /\ s_log.raised
    /\ s_log.calls_here = 2
    /\ s_log.opens_here = 1
    /\ s_log.wrote

====
